---- MODULE Spec2Model ----
(***************************************************************************)
(* Model of apple_scrape.py: one run of main() opens the database, seeds   *)
(* Apple_Categories, loads apple_products.json, fetches the timeline page, *)
(* adds up to 25 new entries from its bgcolor rows, writes the JSON file   *)
(* and mirrors the dictionary into Apple_Products.                         *)
(*                                                                         *)
(* Text (cell text, link text, attribute values) is a sequence of          *)
(* one-character strings, so that rstrip(), upper() and int() are          *)
(* computed.  A Python dict is a sequence of entries in insertion order.   *)
(***************************************************************************)
EXTENDS Integers, Sequences, FiniteSets, TLC

VARIABLES
    fs,            \* fs[d]: apple_products.json in directory d
    site,          \* rows of the page the URL currently serves
    cats,          \* committed rows of Apple_Categories
    products,      \* committed rows of Apple_Products
    runs,          \* number of runs of main() started so far
    pc,            \* position of the current run
    raised,        \* uncaught exception that ended the run, or "none"
    cwd,           \* working directory of the current run
    net,           \* outcome of requests.get in the current run
    loaded,        \* the dictionary as load_JSON returned it
    data,          \* the dictionary (mutated in place)
    table_list,    \* soup.find_all('tr', bgcolor=True)
    i,             \* index of the next row of table_list
    rowspan,       \* add_25_entries: rowspan
    rowspan_date,  \* add_25_entries: rowspan_date
    entries_added, \* add_25_entries: entries_added
    row_dates,     \* per row visited: the "release date" of its entry_details
    bgcolor,       \* row['bgcolor'] of the last row looked up
    row_category   \* add_25_entries: row_category

vars == <<fs, site, cats, products, runs, pc, raised, cwd, net, loaded, data,
          table_list, i, rowspan, rowspan_date, entries_added, row_dates,
          bgcolor, row_category>>

----------------------------------------------------------------------------
(* Bounds *)

MaxRuns == 3

LongLen == 27

----------------------------------------------------------------------------
(* Text *)

Digit == <<"0", "1", "2", "3", "4", "5", "6", "7", "8", "9">>

Whitespace == {" ", "\n"}

LowerLetters == <<"a", "b", "c", "d", "e", "f">>

UpperLetters == <<"A", "B", "C", "D", "E", "F">>

RECURSIVE rstrip(_)
rstrip(s) ==
    IF s = <<>> THEN s
    ELSE IF s[Len(s)] \in Whitespace THEN rstrip(SubSeq(s, 1, Len(s) - 1))
    ELSE s

upper_char(c) ==
    IF \E k \in 1..Len(LowerLetters) : LowerLetters[k] = c
    THEN UpperLetters[CHOOSE k \in 1..Len(LowerLetters) : LowerLetters[k] = c]
    ELSE c

lower_char(c) ==
    IF \E k \in 1..Len(UpperLetters) : UpperLetters[k] = c
    THEN LowerLetters[CHOOSE k \in 1..Len(UpperLetters) : UpperLetters[k] = c]
    ELSE c

upper(s) == [k \in 1..Len(s) |-> upper_char(s[k])]

DigitValue(c) == (CHOOSE k \in 1..10 : Digit[k] = c) - 1

RECURSIVE int(_)
int(s) ==
    IF s = <<>> THEN 0
    ELSE 10 * int(SubSeq(s, 1, Len(s) - 1)) + DigitValue(s[Len(s)])

----------------------------------------------------------------------------
(* color_code_lookup *)

NA == "N/A"

color_code_lookup(color_code) ==
    IF color_code = <<"#","F","F","F","F","7","9">> \/ color_code = <<"F","F","F","F","7","9">>
    THEN "Apple 1/2/2GS/3"
    ELSE IF color_code = <<"#","8","1","D","6","6","6">> \/ color_code = <<"8","1","D","6","6","6">>
    THEN "Lisa"
    ELSE IF color_code = <<"#","9","5","C","E","F","E">> \/ color_code = <<"9","5","C","E","F","E">>
    THEN "Macintosh"
    ELSE IF color_code = <<"#","8","B","F","F","A","3">> \/ color_code = <<"8","B","F","F","A","3">>
    THEN "Network Server"
    ELSE IF color_code = <<"#","C","C","F","F","9","9">> \/ color_code = <<"C","C","F","F","9","9">>
            \/ color_code = <<"#","C","F","9">>
    THEN "Phones/Tablets/PDAs"
    ELSE IF color_code = <<"#","F","F","E","5","E","5">> \/ color_code = <<"F","F","E","5","E","5">>
    THEN "iPod/Consumer Products"
    ELSE IF color_code = <<"#","D","8","D","8","F","2">> \/ color_code = <<"D","8","D","8","F","2">>
    THEN "Computer Peripherals"
    ELSE NA

\* add_25_entries: color_code_lookup(row['bgcolor'].rstrip().upper())
RowCategory(bg) == color_code_lookup(upper(rstrip(bg)))

\* The color tokens color_code_lookup compares against.
ColorTokens ==
    { <<"#","F","F","F","F","7","9">>, <<"F","F","F","F","7","9">>,
      <<"#","8","1","D","6","6","6">>, <<"8","1","D","6","6","6">>,
      <<"#","9","5","C","E","F","E">>, <<"9","5","C","E","F","E">>,
      <<"#","8","B","F","F","A","3">>, <<"8","B","F","F","A","3">>,
      <<"#","C","C","F","F","9","9">>, <<"C","C","F","F","9","9">>,
      <<"#","C","F","9">>,
      <<"#","F","F","E","5","E","5">>, <<"F","F","E","5","E","5">>,
      <<"#","D","8","D","8","F","2">>, <<"D","8","D","8","F","2">> }

----------------------------------------------------------------------------
(* The page: a sequence of <tr> rows.  has_td / has_a say whether          *)
(* row.find('td') / row.find('a') finds a tag; td_text / a_text are the    *)
(* tags' .text; rowspan_attr is the first cell's rowspan attribute.        *)

Row(bg, td, span, a) ==
    [ has_bgcolor |-> TRUE, bgcolor |-> bg,
      has_td |-> TRUE, td_text |-> td,
      has_rowspan |-> span # <<>>, rowspan_attr |-> span,
      has_a |-> TRUE, a_text |-> a ]

Name(n) == <<"P", Digit[(n \div 10) + 1], Digit[(n % 10) + 1]>>

\* The link text of row n of the long page: the last row repeats a name.
LongName(n) == IF n = LongLen THEN Name(2) ELSE Name(n)

Year(n) == <<"1", "9", Digit[(n \div 10) + 1], Digit[(n % 10) + 1]>>

LongColors ==
    << <<"#","F","F","F","F","7","9">>, <<"8","1","d","6","6","6">>,
       <<"#","9","5","C","E","F","E"," ">>, <<"8","B","F","F","A","3">>,
       <<"#","c","f","9">>, <<"f","f","e","5","e","5","\n">>,
       <<"D","8","D","8","F","2">> >>

\* Row n of the long page: every fifth row opens a span of three rows.
LongRow(n) ==
    Row(LongColors[(n % 7) + 1],
        IF n % 2 = 0 THEN Year(n) \o <<"\n">> ELSE Year(n),
        IF n % 5 = 1 THEN <<"3">> ELSE <<>>,
        IF n % 3 = 0 THEN LongName(n) \o <<" ">> ELSE LongName(n))

LongPage == [n \in 1..LongLen |-> LongRow(n)]

\* A short page: a header row without bgcolor; a span of two whose second
\* row has no <td>; a span of three with a repeated name in it; a span
\* opened inside a span.
SpanPage ==
    << [Row(<<>>, <<"D","a","t","e">>, <<>>, <<"N","a","m","e">>)
            EXCEPT !.has_bgcolor = FALSE],
       Row(<<"8","1","D","6","6","6">>, <<"1","9","8","3","\n">>, <<"2">>,
           <<"L","i","s","a">>),
       [Row(<<"8","1","D","6","6","6">>, <<>>, <<>>, Name(2))
            EXCEPT !.has_td = FALSE],
       Row(<<"#","9","5","c","e","f","e">>, <<"X","L">>, <<>>, Name(1) \o <<" ">>),
       Row(<<"9","5","C","E","F","E">>, <<"1","9","8","4">>, <<"3">>,
           <<"M","a","c">>),
       Row(<<"8","1","D","6","6","6">>, <<"2">>, <<>>, <<"L","i","s","a","\n">>),
       Row(<<"#","C","C","F","F","9","9">>, <<"N","e","w">>, <<>>, Name(3)),
       Row(<<"#","C","C","F","F","9","9">>, <<"1","9","8","5"," ">>, <<>>, Name(4)),
       Row(<<"f","f","f","f","7","9">>, <<"1","9","8","6">>, <<"3">>, Name(7)),
       Row(<<"f","f","f","f","7","9">>, <<"1","9","8","7">>, <<"2">>, Name(8)),
       Row(<<"f","f","f","f","7","9">>, <<"I","I">>, <<>>, Name(9)) >>

\* A page with row colors color_code_lookup does not know.
StalePage ==
    << Row(<<"#","F","F","F","F","7","9">>, <<"1","9","7","6">>, <<>>,
           <<"A","p","p","l","e">>),
       Row(<<"#","A","B","C","D","E","F">>, <<"1","9","9","6">>, <<>>,
           <<"P","i","p","p","i","n">>),
       Row(<<"c","f","9">>, <<"2","0","0","7">>, <<>>, Name(1)) >>

\* A page with a row that has a first cell but no hyperlink.
BrokenPage ==
    << Row(<<"D","8","D","8","F","2">>, <<"1","9","9","0">>, <<"2">>, Name(5)),
       [Row(<<"D","8","D","8","F","2">>, <<"1","9","9","1">>, <<>>, <<>>)
            EXCEPT !.has_a = FALSE],
       Row(<<"D","8","D","8","F","2">>, <<"1","9","9","2">>, <<>>, Name(6)) >>

EmptyPage == <<>>

Pages == {LongPage, SpanPage, StalePage, BrokenPage}

\* Bodies of responses whose status is not ok: error documents, which
\* carry no table row with a bgcolor attribute.
ErrorBodies == {EmptyPage}

\* soup.find_all('tr', bgcolor=True)
RECURSIVE find_all_bgcolor(_)
find_all_bgcolor(rows) ==
    IF rows = <<>> THEN <<>>
    ELSE IF Head(rows).has_bgcolor
         THEN <<Head(rows)>> \o find_all_bgcolor(Tail(rows))
         ELSE find_all_bgcolor(Tail(rows))

----------------------------------------------------------------------------
(* The dictionary *)

Keys(d) == {d[k].name : k \in 1..Len(d)}

dict_get_is_None_always(d, key) == TRUE

\* data.get(key) is None
dict_get_is_None(d, key) == key \notin Keys(d)

dict_get(d, key) == d[CHOOSE k \in 1..Len(d) : d[k].name = key]

\* data[key] = details
dict_set(d, key, details) ==
    LET e == [name |-> key, release_date |-> details.release_date,
              category |-> details.category]
    IN  IF key \in Keys(d)
        THEN [k \in 1..Len(d) |-> IF d[k].name = key THEN e ELSE d[k]]
        ELSE Append(d, e)

----------------------------------------------------------------------------
(* add_25_entries *)

Cap == 25

CapReachedLate(n) == n > Cap

CapReachedEarly(n) == n >= Cap - 1

\* if entries_added >= 25: break
CapReached(n) == n >= Cap

rowspan_kept(span) == span

\* if rowspan != 0: ... rowspan -= 1
rowspan_after(span) == IF span # 0 THEN span - 1 ELSE span

NoDate == [entry |-> FALSE, date |-> <<>>]

\* The body of the for loop for one row, up to the cap check.  raised is
\* "AttributeError" when row.find('a') is None and .text is read.
RowBody(row, cat, span, span_date, d, added) ==
    IF ~row.has_td
    THEN [rowspan |-> span, rowspan_date |-> span_date, data |-> d,
          entries_added |-> added, raised |-> "none", date |-> NoDate]
    ELSE
      LET span1 == IF row.has_rowspan THEN int(row.rowspan_attr) ELSE span
          date1 == IF row.has_rowspan THEN rstrip(row.td_text) ELSE span_date
      IN  IF ~row.has_a
          THEN [rowspan |-> span1, rowspan_date |-> date1, data |-> d,
                entries_added |-> added, raised |-> "AttributeError",
                date |-> NoDate]
          ELSE
            LET entry_name == rstrip(row.a_text)
                entry_details ==
                    IF span1 # 0
                    THEN [release_date |-> date1, category |-> cat]
                    ELSE [release_date |-> rstrip(row.td_text), category |-> cat]
                span2 == rowspan_after(span1)
                fresh == dict_get_is_None(d, entry_name)
            IN  [rowspan |-> span2, rowspan_date |-> date1,
                 data |-> IF fresh THEN dict_set(d, entry_name, entry_details)
                          ELSE d,
                 entries_added |-> IF fresh THEN added + 1 ELSE added,
                 raised |-> "none",
                 date |-> [entry |-> TRUE, date |-> entry_details.release_date]]

----------------------------------------------------------------------------
(* The database *)

categories ==
    << "Apple 1/2/2GS/3", "Lisa", "Macintosh", "Network Server",
       "Phones/Tablets/PDAs", "iPod/Consumer Products", "Computer Peripherals" >>

\* INSERT OR IGNORE INTO Apple_Categories (id, category): id is the primary
\* key and category is UNIQUE.
InsertOrIgnoreCategory(t, id, c) ==
    IF \E r \in t : r.id = id \/ r.category = c
    THEN t
    ELSE t \cup {[id |-> id, category |-> c]}

\* for i in range(len(categories)): INSERT OR IGNORE (i, categories[i])
RECURSIVE SeedCategories(_, _)
SeedCategories(t, k) ==
    IF k >= Len(categories) THEN t
    ELSE SeedCategories(InsertOrIgnoreCategory(t, k, categories[k + 1]), k + 1)

SelectCategoryIdOrFirst(t, c) ==
    IF \E x \in t : x.category = c
    THEN {r.id : r \in {x \in t : x.category = c}}
    ELSE {0}

\* SELECT id FROM Apple_Categories WHERE category = (?): the ids selected.
SelectCategoryId(t, c) == {r.id : r \in {x \in t : x.category = c}}

\* The rowid SQLite gives a row inserted without an id.
NextRowId(t) ==
    IF t = {} THEN 1
    ELSE (CHOOSE m \in {r.id : r \in t} : \A r \in t : r.id <= m) + 1

InsertOrReplaceProduct(t, name, release_date, category_id) ==
    LET others == {r \in t : r.name # name}
    IN  others \cup {[id |-> NextRowId(others), name |-> name,
                       release_date |-> release_date,
                       category |-> category_id]}

InsertProduct(t, name, release_date, category_id) ==
    t \cup {[id |-> NextRowId(t), name |-> name,
               release_date |-> release_date, category |-> category_id]}

\* INSERT OR IGNORE INTO Apple_Products (name, release_date, category):
\* name is UNIQUE.
InsertOrIgnoreProduct(t, name, release_date, category_id) ==
    IF \E r \in t : r.name = name
    THEN t
    ELSE t \cup {[id |-> NextRowId(t), name |-> name,
                   release_date |-> release_date, category |-> category_id]}

\* The loop of SQL_update_database from entry k on, on the uncommitted
\* table t.  cur.fetchone()[0] raises TypeError when no row was selected.
RECURSIVE UpdateLoop(_, _, _, _)
UpdateLoop(t, c, d, k) ==
    IF k > Len(d) THEN [raised |-> "none", table |-> t]
    ELSE LET ids == SelectCategoryId(c, d[k].category)
         IN  IF ids = {} THEN [raised |-> "TypeError", table |-> t]
             ELSE UpdateLoop(
                    InsertOrIgnoreProduct(t, d[k].name, d[k].release_date,
                                          CHOOSE x \in ids : TRUE),
                    c, d, k + 1)

\* The committed Apple_Products after SQL_update_database: conn.commit() is
\* reached only when no lookup raised; otherwise the open transaction is
\* rolled back when the process ends.
UpdateResult(t, c, d) ==
    LET u == UpdateLoop(t, c, d, 1)
    IN  [raised |-> u.raised,
         table |-> IF u.raised = "none" THEN u.table ELSE t]

----------------------------------------------------------------------------
(* Runs of main() *)

ScriptDir == "script"

OtherDir == "other"

\* Directories a run can be started from; load_JSON reads the file next to
\* the script, write_JSON opens the bare file name.
Dirs == {ScriptDir, OtherDir}

NoFile == [exists |-> FALSE, content |-> <<>>]

Locals0 ==
    /\ raised = "none" /\ net = "none"
    /\ loaded = <<>> /\ data = <<>> /\ table_list = <<>>
    /\ i = 1 /\ rowspan = 0 /\ rowspan_date = <<>> /\ entries_added = 0
    /\ row_dates = <<>> /\ bgcolor = <<>> /\ row_category = ""

Init ==
    /\ fs = [d \in Dirs |-> NoFile]
    /\ site \in Pages
    /\ cats = {} /\ products = {}
    /\ runs = 0 /\ pc = "idle" /\ cwd = ScriptDir
    /\ Locals0

\* The process starts in directory c; main() calls open_database.
main_start(c, limit) ==
    /\ pc \in {"idle", "done", "aborted"}
    /\ runs < limit
    /\ runs' = runs + 1
    /\ cwd' = c
    /\ pc' = "categories"
    /\ raised' = "none" /\ net' = "none"
    /\ loaded' = <<>> /\ data' = <<>> /\ table_list' = <<>>
    /\ i' = 1 /\ rowspan' = 0 /\ rowspan_date' = <<>> /\ entries_added' = 0
    /\ row_dates' = <<>> /\ bgcolor' = <<>> /\ row_category' = ""
    /\ UNCHANGED <<fs, site, cats, products>>

\* Between runs the page is edited.
page_edited ==
    /\ pc \in {"idle", "done", "aborted"}
    /\ runs < MaxRuns
    /\ \E p \in Pages \ {site} : site' = p
    /\ UNCHANGED <<fs, cats, products, runs, pc, raised, cwd, net, loaded,
                   data, table_list, i, rowspan, rowspan_date, entries_added,
                   row_dates, bgcolor, row_category>>

SQL_create_categories ==
    /\ pc = "categories"
    /\ cats' = SeedCategories(cats, 0)
    /\ pc' = "load"
    /\ UNCHANGED <<fs, site, products, runs, raised, cwd, net, loaded, data,
                   table_list, i, rowspan, rowspan_date, entries_added,
                   row_dates, bgcolor, row_category>>

\* data = load_JSON("apple_products.json"): the file in the script's
\* directory, or an empty dictionary.
load_JSON ==
    /\ pc = "load"
    /\ data' = IF fs[ScriptDir].exists THEN fs[ScriptDir].content ELSE <<>>
    /\ loaded' = data'
    /\ pc' = "get"
    /\ UNCHANGED <<fs, site, cats, products, runs, raised, cwd, net,
                   table_list, i, rowspan, rowspan_date, entries_added,
                   row_dates, bgcolor, row_category>>

\* requests.get returns an ok response with the page; add_25_entries starts.
requests_get_ok ==
    /\ pc = "get"
    /\ net' = "ok"
    /\ table_list' = find_all_bgcolor(site)
    /\ pc' = "loop"
    /\ UNCHANGED <<fs, site, cats, products, runs, raised, cwd, loaded, data,
                   i, rowspan, rowspan_date, entries_added, row_dates,
                   bgcolor, row_category>>

\* requests.get returns a response that is not ok: the message is printed
\* and the response's content is parsed all the same.
requests_get_not_ok ==
    /\ pc = "get"
    /\ net' = "not ok"
    /\ \E body \in ErrorBodies : table_list' = find_all_bgcolor(body)
    /\ pc' = "loop"
    /\ UNCHANGED <<fs, site, cats, products, runs, raised, cwd, loaded, data,
                   i, rowspan, rowspan_date, entries_added, row_dates,
                   bgcolor, row_category>>

\* requests.get raises (no connection): nothing catches the exception.
requests_get_raises ==
    /\ pc = "get"
    /\ net' = "raised"
    /\ raised' = "ConnectionError"
    /\ pc' = "aborted"
    /\ UNCHANGED <<fs, site, cats, products, runs, cwd, loaded, data,
                   table_list, i, rowspan, rowspan_date, entries_added,
                   row_dates, bgcolor, row_category>>

\* One iteration of the for loop of add_25_entries.
add_25_entries_row ==
    /\ pc = "loop"
    /\ i <= Len(table_list)
    /\ LET row == table_list[i]
           cat == RowCategory(row.bgcolor)
           b == RowBody(row, cat, rowspan, rowspan_date, data, entries_added)
       IN  /\ bgcolor' = row.bgcolor
           /\ row_category' = cat
           /\ rowspan' = b.rowspan
           /\ rowspan_date' = b.rowspan_date
           /\ data' = b.data
           /\ entries_added' = b.entries_added
           /\ row_dates' = Append(row_dates, b.date)
           /\ raised' = b.raised
           /\ IF b.raised # "none" THEN pc' = "aborted" /\ i' = i
              ELSE IF CapReached(b.entries_added) THEN pc' = "write" /\ i' = i
              ELSE pc' = "loop" /\ i' = i + 1
    /\ UNCHANGED <<fs, site, cats, products, runs, cwd, net, loaded,
                   table_list>>

\* The for loop ends with no row left; add_25_entries returns.
add_25_entries_return ==
    /\ pc = "loop"
    /\ i > Len(table_list)
    /\ pc' = "write"
    /\ UNCHANGED <<fs, site, cats, products, runs, raised, cwd, net, loaded,
                   data, table_list, i, rowspan, rowspan_date, entries_added,
                   row_dates, bgcolor, row_category>>

\* write_JSON("apple_products.json", data): open(filename, 'w') resolves the
\* name against the working directory.
write_JSON ==
    /\ pc = "write"
    /\ fs' = [fs EXCEPT ![cwd] = [exists |-> TRUE, content |-> data]]
    /\ pc' = "update"
    /\ UNCHANGED <<site, cats, products, runs, raised, cwd, net, loaded, data,
                   table_list, i, rowspan, rowspan_date, entries_added,
                   row_dates, bgcolor, row_category>>

SQL_update_database ==
    /\ pc = "update"
    /\ LET u == UpdateResult(products, cats, data)
       IN  /\ products' = u.table
           /\ raised' = u.raised
           /\ pc' = IF u.raised = "none" THEN "done" ELSE "aborted"
    /\ UNCHANGED <<fs, site, cats, runs, cwd, net, loaded, data, table_list,
                   i, rowspan, rowspan_date, entries_added, row_dates,
                   bgcolor, row_category>>

Next ==
    \/ \E c \in Dirs : main_start(c, MaxRuns)
    \/ page_edited
    \/ SQL_create_categories
    \/ load_JSON
    \/ requests_get_ok
    \/ requests_get_not_ok
    \/ requests_get_raises
    \/ add_25_entries_row
    \/ add_25_entries_return
    \/ write_JSON
    \/ SQL_update_database

Spec == Init /\ [][Next]_vars

\* Runs from the script's directory against a page that stays the same and
\* is fetched successfully every time.
NextRerun ==
    \/ main_start(ScriptDir, MaxRuns)
    \/ SQL_create_categories
    \/ load_JSON
    \/ requests_get_ok
    \/ add_25_entries_row
    \/ add_25_entries_return
    \/ write_JSON
    \/ SQL_update_database

SpecRerun == Init /\ [][NextRerun]_vars

\* color_code_lookup on its own: any spelling of a token of the table, with
\* or without the leading '#', is looked up as add_25_entries looks up
\* row['bgcolor'].
Core(t) == IF t # <<>> /\ t[1] = "#" THEN Tail(t) ELSE t

CaseVariants(s) ==
    { [k \in 1..Len(s) |-> IF k \in L THEN lower_char(s[k]) ELSE s[k]] :
        L \in SUBSET (1..Len(s)) }

Spellings(t) ==
    CaseVariants(Core(t)) \cup {<<"#">> \o v : v \in CaseVariants(Core(t))}

ColorInputs == UNION {Spellings(t) : t \in ColorTokens}

InitColor ==
    /\ fs = [d \in Dirs |-> NoFile]
    /\ site = EmptyPage
    /\ cats = {} /\ products = {}
    /\ runs = 0 /\ pc = "color" /\ cwd = ScriptDir
    /\ raised = "none" /\ net = "none"
    /\ loaded = <<>> /\ data = <<>> /\ table_list = <<>>
    /\ i = 1 /\ rowspan = 0 /\ rowspan_date = <<>> /\ entries_added = 0
    /\ row_dates = <<>> /\ row_category = ""
    /\ bgcolor \in ColorInputs

lookup_row_color ==
    /\ pc = "color"
    /\ row_category' = RowCategory(bgcolor)
    /\ pc' = "looked"
    /\ UNCHANGED <<fs, site, cats, products, runs, raised, cwd, net, loaded,
                   data, table_list, i, rowspan, rowspan_date, entries_added,
                   row_dates, bgcolor>>

NextColor == lookup_row_color

SpecColor == InitColor /\ [][NextColor]_vars

----------------------------------------------------------------------------
(* Claims *)

Min(a, b) == IF a <= b THEN a ELSE b

NoDuplicateNames(d) ==
    \A m, n \in 1..Len(d) : d[m].name = d[n].name => m = n

\* C1: one invocation of add_25_entries adds at most 25 new names to the
\* dictionary and returns a count of at most 25, however many rows of the
\* table are eligible; the count returned is the number of names added.
C1_AtMost25PerInvocation ==
    /\ entries_added <= Cap
    /\ Cardinality(Keys(data) \ Keys(loaded)) <= Cap
    /\ pc = "write" => Cardinality(Keys(data) \ Keys(loaded)) = entries_added

\* The loop was left by the break with 25 entries added and rows remaining.
C1_Witness ==
    /\ pc = "write"
    /\ entries_added = Cap
    /\ i < Len(table_list)
    /\ Cardinality(Keys(data) \ Keys(loaded)) = Cap

\* C2: every entry the dictionary held before add_25_entries is in it
\* afterwards with the same release date and category, and no name occurs
\* twice, whatever rows the table has.
C2_ExistingEntriesKept ==
    /\ \A k \in 1..Len(loaded) : \E m \in 1..Len(data) : data[m] = loaded[k]
    /\ NoDuplicateNames(data)

\* A row was visited whose name was already in the dictionary with a
\* release date other than the one the row yields.
C2_Witness ==
    \E k \in 1..Len(row_dates) :
        /\ row_dates[k].entry
        /\ rstrip(table_list[k].a_text) \in Keys(loaded)
        /\ dict_get(loaded, rstrip(table_list[k].a_text)).release_date
               # row_dates[k].date

\* The index of the m-th row after row k of t that has a first cell, or 0.
RECURSIVE NthTd(_, _, _)
NthTd(t, k, m) ==
    IF m = 0 THEN k
    ELSE LET S == {j \in (k + 1)..Len(t) : t[j].has_td}
         IN  IF S = {} THEN 0
             ELSE NthTd(t, CHOOSE j \in S : \A q \in S : j <= q, m - 1)

\* Row k of the table opens a span of at least one row.
OpensSpan(k) ==
    /\ table_list[k].has_td
    /\ table_list[k].has_rowspan
    /\ int(table_list[k].rowspan_attr) >= 1

\* C3 as stated: a row opening a span of N, with name-bearing rows after it,
\* gives its trimmed first-cell text as date to itself and to the next N-1
\* rows, and the row after those gets its own first-cell text.
C3_SpanAsStated ==
    \A k \in 1..Len(row_dates) :
        LET N == int(table_list[k].rowspan_attr)
        IN  (/\ OpensSpan(k)
             /\ \A j \in k..(k + N) :
                    j <= Len(table_list) => table_list[j].has_a)
            => \A j \in k..(k + N) :
                  j <= Len(row_dates) =>
                      row_dates[j] =
                        [entry |-> TRUE,
                         date |-> IF j < k + N
                                  THEN rstrip(table_list[k].td_text)
                                  ELSE rstrip(table_list[j].td_text)]

\* C3 amended: a row opening a span of N gives its trimmed first-cell text
\* as date to itself and to the next N-1 rows that have a first cell, as long
\* as none of them opens a span itself; rows without a first cell get no
\* entry and do not use up the span; the N-th row with a first cell after
\* the opening row, if no span was opened up to it, gets its own first-cell
\* text.  The first visited row of a name the dictionary did not hold puts
\* its date into the dictionary.
C3_SpanCarriesDate ==
    /\ \A k \in 1..Len(row_dates) :
          LET N == int(table_list[k].rowspan_attr)
          IN  (OpensSpan(k) /\ table_list[k].has_a)
              => /\ row_dates[k] =
                      [entry |-> TRUE, date |-> rstrip(table_list[k].td_text)]
                 /\ \A m \in 1..N :
                      LET j == NthTd(table_list, k, m)
                      IN  (/\ j # 0
                           /\ j <= Len(row_dates)
                           /\ table_list[j].has_a
                           /\ \A q \in 1..m :
                                ~table_list[NthTd(table_list, k, q)].has_rowspan)
                          => row_dates[j] =
                               [entry |-> TRUE,
                                date |-> IF m < N
                                         THEN rstrip(table_list[k].td_text)
                                         ELSE rstrip(table_list[j].td_text)]
    /\ \A k \in 1..Len(row_dates) :
          ~table_list[k].has_td => row_dates[k] = NoDate
    /\ \A k \in 1..Len(row_dates) :
          LET name == rstrip(table_list[k].a_text)
          IN  (/\ row_dates[k].entry
               /\ name \notin Keys(loaded)
               /\ \A j \in 1..(k - 1) :
                      row_dates[j].entry => rstrip(table_list[j].a_text) # name)
              => /\ name \in Keys(data)
                 /\ dict_get(data, name).release_date = row_dates[k].date

\* A span of three was opened, followed by two rows with a first cell and
\* no span of their own, and the row after the span was visited; and a span
\* was opened whose next row has no first cell, and the row after that one
\* was visited.
C3_Witness ==
    /\ \E k \in 1..Len(row_dates) :
          /\ OpensSpan(k)
          /\ int(table_list[k].rowspan_attr) = 3
          /\ k + 3 <= Len(row_dates)
          /\ \A j \in (k + 1)..(k + 3) :
                table_list[j].has_td /\ ~table_list[j].has_rowspan
          /\ row_dates[k + 2].date = rstrip(table_list[k].td_text)
          /\ row_dates[k + 3].date # rstrip(table_list[k].td_text)
    /\ \E k \in 1..Len(row_dates) :
          /\ OpensSpan(k)
          /\ k + 2 <= Len(row_dates)
          /\ ~table_list[k + 1].has_td
          /\ row_dates[k + 2].date = rstrip(table_list[k].td_text)

UpdateCompleted == pc = "done"

UpdateRan == pc = "done" \/ (pc = "aborted" /\ raised = "TypeError")

\* C5: once SQL_update_database has run on a dictionary, running it again on
\* the same dictionary leaves Apple_Products as it is; no two rows share a
\* name, and after a run that reached the commit every name of the
\* dictionary has exactly one row; and no step changes or removes a row
\* that Apple_Products already holds.
C5_UpsertIdempotent ==
    /\ [](UpdateRan =>
            /\ UpdateResult(products, cats, data).table = products
            /\ \A r1, r2 \in products : r1.name = r2.name => r1 = r2)
    /\ [](UpdateCompleted =>
            \A name \in Keys(data) :
                Cardinality({r \in products : r.name = name}) = 1)
    /\ [][\A r \in products : r \in products']_vars

\* SQL_update_database committed a dictionary holding a name whose row in
\* Apple_Products carries another release date than the dictionary entry.
C5_Witness ==
    /\ pc = "done"
    /\ \E k \in 1..Len(data) : \E r \in products :
          r.name = data[k].name /\ r.release_date # data[k].release_date

\* C6: in every reachable state no name occurs twice in a JSON file or in
\* the dictionary, no two rows of Apple_Products share a name, and the
\* category of every Apple_Products row is the id of an Apple_Categories row.
C6_UniqueNamesAndCategoryIds ==
    /\ \A d \in Dirs : NoDuplicateNames(fs[d].content)
    /\ NoDuplicateNames(data)
    /\ \A r1, r2 \in products : r1.name = r2.name => r1 = r2
    /\ \A r \in products : \E c \in cats : c.id = r.category

\* A later run has mirrored a dictionary whose names already had rows.
C6_Witness ==
    /\ pc = "done"
    /\ runs >= 2
    /\ Len(data) >= 2
    /\ Len(loaded) >= 1
    /\ \A k \in 1..Len(data) : \E r \in products : r.name = data[k].name

\* C7 as stated: every entry of a JSON file stays in that file, unchanged,
\* in every later state.
C7_JSONAppendOnly ==
    [][\A d \in Dirs :
         \A k \in 1..Len(fs[d].content) :
            \E m \in 1..Len(fs'[d].content) :
                fs'[d].content[m] = fs[d].content[k]]_vars

\* C8: a row of unknown color with a first cell and a hyperlink does not
\* raise in add_25_entries; if its name is new it is recorded with category
\* "N/A".  When SQL_update_database runs on a dictionary with an entry whose
\* category has no row in Apple_Categories, the run ends with an uncaught
\* TypeError and no row is inserted for that entry.
C8_UnknownColor ==
    [][/\ (/\ pc = "loop" /\ i <= Len(table_list)
            /\ table_list[i].has_td /\ table_list[i].has_a
            /\ RowCategory(table_list[i].bgcolor) = NA)
          => /\ raised' = "none"
             /\ pc' # "aborted"
             /\ rstrip(table_list[i].a_text) \in Keys(data')
             /\ rstrip(table_list[i].a_text) \notin Keys(data)
                  => dict_get(data', rstrip(table_list[i].a_text)).category = NA
       /\ pc = "update"
          => \A k \in 1..Len(data) :
                (~\E c \in cats : c.category = data[k].category)
                => /\ pc' = "aborted"
                   /\ raised' = "TypeError"
                   /\ {r \in products' : r.name = data[k].name}
                        = {r \in products : r.name = data[k].name}
      ]_vars

\* A run recorded an entry with category "N/A" from a row of unknown color,
\* wrote it, and ended in SQL_update_database with a TypeError.
C8_Witness ==
    /\ pc = "aborted"
    /\ raised = "TypeError"
    /\ \E k \in 1..Len(data) :
          /\ data[k].category = NA
          /\ data[k].name \notin Keys(loaded)
          /\ ~\E r \in products : r.name = data[k].name

\* C9 as stated: after a failed network call the run is not ended by the
\* failure and goes on with exactly the dictionary it loaded.
C9_NetworkFailureProceeds ==
    net \in {"not ok", "raised"} =>
        /\ ~(pc = "aborted" /\ raised = "ConnectionError")
        /\ data = loaded

\* C4 as stated: every upper/lower-case spelling of a token of the color
\* table, with or without the leading '#', resolves to the category of the
\* token itself and never to "N/A".
C4_CaseAndMarkerInsensitive ==
    pc = "looked" =>
        \A t \in ColorTokens :
            bgcolor \in Spellings(t) =>
                /\ row_category = color_code_lookup(t)
                /\ row_category # NA

\* The names of the rows of t that have a first cell.
TdNames(t) ==
    {rstrip(t[k].a_text) : k \in {j \in 1..Len(t) : t[j].has_td}}

\* Every row of t with a first cell has a hyperlink.
AllNamed(t) == \A k \in 1..Len(t) : t[k].has_td => t[k].has_a

\* One iteration of the for loop of add_25_entries with the cap check left
\* out, recording the date given to the row.
UncappedStep(st, row) ==
    LET b == RowBody(row, RowCategory(row.bgcolor), st.rowspan,
                     st.rowspan_date, st.data, 0)
    IN  [rowspan |-> b.rowspan, rowspan_date |-> b.rowspan_date,
         data |-> b.data, dates |-> Append(st.dates, b.date)]

\* The state of that loop after the first k rows of t, starting from an
\* empty dictionary.  (The singleton set makes TLC compute the state after
\* row k - 1 before it evaluates row k.)
RECURSIVE UncappedPass(_, _)
UncappedPass(t, k) ==
    IF k = 0
    THEN [rowspan |-> 0, rowspan_date |-> <<>>, data |-> <<>>, dates |-> <<>>]
    ELSE CHOOSE after \in {UncappedStep(st, t[k]) :
                              st \in {UncappedPass(t, k - 1)}} : TRUE

Uncapped(t) == UncappedPass(t, Len(t))

\* In d every name of t carries the date and category of the first row of
\* t with that name, the dates being those dates assigns to the rows.
FirstOccurrenceWins(t, dates, d) ==
    \A k \in 1..Len(t) :
        (/\ t[k].has_td
         /\ \A j \in 1..(k - 1) :
                t[j].has_td => rstrip(t[j].a_text) # rstrip(t[k].a_text))
        => \E m \in 1..Len(d) :
              d[m] = [name |-> rstrip(t[k].a_text),
                      release_date |-> dates[k].date,
                      category |-> RowCategory(t[k].bgcolor)]

\* C10: for a page that stays the same and whose rows with a first cell all
\* have a hyperlink, starting without a JSON file and running from the
\* script's directory, each run adds min(25, names of the table still
\* missing) entries; after run number r the file holds min(25 r, M) entries
\* (M the number of distinct names); once 25 r >= M the file equals the
\* dictionary a pass without the cap builds, every name with the date and
\* category of its first row; and a later run adds nothing.
C10_CappedRunsConverge ==
    LET t == find_all_bgcolor(site)
        M == Cardinality(TdNames(t))
        U == Uncapped(t)
    IN  AllNamed(t) =>
          /\ pc = "write" =>
                entries_added
                  = Min(Cap, Cardinality(TdNames(t) \ Keys(loaded)))
          /\ pc \in {"update", "done", "aborted"} =>
                /\ Len(fs[ScriptDir].content) = Min(Cap * runs, M)
                /\ Cap * runs >= M =>
                      /\ fs[ScriptDir].content = U.data
                      /\ FirstOccurrenceWins(t, U.dates, fs[ScriptDir].content)
                      /\ Len(fs[ScriptDir].content) = M
          /\ (pc = "write" /\ Cap * (runs - 1) >= M) =>
                entries_added = 0 /\ data = loaded

\* The third run over a page with more than 25 names found nothing to add:
\* the first added 25, the second the rest.
C10_Witness ==
    /\ pc = "write"
    /\ runs = 3
    /\ entries_added = 0
    /\ Len(data) > Cap
    /\ Len(data) < 2 * Cap
    /\ data = Uncapped(find_all_bgcolor(site)).data

====
